---- MODULE Spec2Model ----
(***************************************************************************)
(* Bounds-preserving hyperbolic solver miniapp (miniapps/hypsys).           *)
(*                                                                          *)
(* hypsys.cpp  : the serial driver             (specification SpecSerial)  *)
(* phypsys.cpp : the MPI driver                (specification SpecPar)     *)
(* either driver                               (specification Spec)        *)
(* one evaluation of the MCL evolution operator (specification SpecMCL)    *)
(* either driver on a time scale of 1e-8       (specification SpecFine)    *)
(* both drivers side by side                   (specification SpecBoth)    *)
(*                                                                          *)
(* lib/fe_evol, lib/pfe_evol and the ODE solvers are not part of the two   *)
(* driver files; what the drivers call in them follows the design document *)
(* of the miniapp.                                                          *)
(*                                                                          *)
(* Reals are modelled by integers: time in units of the smallest step,     *)
(* state values in units of a state quantum, so that sums, products and    *)
(* comparisons are exact.  A quotient a/b is kept as the pair              *)
(* [num |-> a, den |-> b] and compared by cross-multiplication.             *)
(***************************************************************************)
EXTENDS Integers, Sequences, FiniteSets, TLC

(* ----------------------------- bounds ---------------------------------- *)
\* number of degrees of freedom of the finite element space
NDofs == 2
\* number of MPI ranks of the distributed driver
NRanks == 2
\* state values are drawn from 0..MaxVal
MaxVal == 1
\* lumped mass entries are drawn from 1..MaxMass
MaxMass == 2
\* final times are drawn from 0..MaxT
MaxT == 2
\* configured time steps are drawn from 0..MaxDt
MaxDt == 2
\* visualization intervals are drawn from 0..MaxVisSteps
MaxVisSteps == 2
\* ODE solver types are drawn from 0..MaxSolverType
MaxSolverType == 4
\* problem numbers are drawn from 0..MaxProblemNum
MaxProblemNum == 1
\* the step counter ti is kept modulo IntWrap (the width of the int)
IntWrap == 6
\* number of degrees of freedom of the mesh of an MCL evaluation
NMclDofs == 3
\* the states of an MCL evaluation are drawn from 0..MaxU
MaxU == 2
\* the lumped masses of an MCL evaluation are drawn from 1..MaxMclMass
MaxMclMass == 2
\* advection velocities are drawn from -MaxSpeed..MaxSpeed
MaxSpeed == 1
\* high-order time derivatives are drawn from -MaxRate..MaxRate
MaxRate == 1
\* forward Euler steps of an MCL evaluation are 1/q for q in 1..MaxDtInv
MaxDtInv == 4

\* the final time lies 0..MaxSlack fine units above a multiple of the step
MaxSlack == 2

(* ------------------------- program constants --------------------------- *)
\* tol = 1.e-12 (hypsys.cpp:149), in state quanta per time unit
tol == 2
\* 1.e-8 (hypsys.cpp:156) is 1/EpsInv
EpsInv == 100000000

(* ------------------------------ helpers -------------------------------- *)
Dofs == 1..NDofs
Vals == 0..MaxVal
States == [Dofs -> Vals]
Masses == [Dofs -> 1..MaxMass]
Ranks == 0..(NRanks - 1)

\* the lumped mass of the mesh the MPI driver partitions
MeshMass == [i \in Dofs |-> 1 + (i % MaxMass)]

\* the ParMesh partition: the rank that owns dof i (contiguous blocks)
Owner(i) == ((i - 1) * NRanks) \div NDofs

\* the dofs of rank r's ParFiniteElementSpace
LocalDofs(r) == {i \in Dofs : Owner(i) = r}

\* the ranks that share a partition boundary with rank r
Nbrs(r) == {q \in Ranks : q = r + 1 \/ q = r - 1}

\* the directed links between neighbouring ranks
Links == {l \in Ranks \X Ranks : l[2] \in Nbrs(l[1])}

\* min(a, b) of <algorithm>, as used at hypsys.cpp:152
Min(a, b) == IF b < a THEN b ELSE a

Abs(a) == IF a < 0 THEN -a ELSE a

RECURSIVE SumOver(_, _)
\* sum of f[i] over the indices i in S
SumOver(f, S) ==
    IF S = {} THEN 0
    ELSE LET i == CHOOSE j \in S : TRUE
         IN f[i] + SumOver(f, S \ {i})

\* Vector::Sum()
VecSum(v) == SumOver(v, DOMAIN v)

\* Vector::operator*(const Vector&): the dot product
Dot(a, b) == SumOver([i \in DOMAIN a |-> a[i] * b[i]], DOMAIN a)

\* a Vector over the indices S set to the constant c (SetSize(n); v = c)
ConstVec(S, c) == [i \in S |-> c]

\* a fraction is below an integer bound k:  num/den < k.  A division by
\* zero gives inf or NaN in IEEE arithmetic, and both compare false.
FracLess(q, k) ==
    IF q.den > 0 THEN q.num < k * q.den
    ELSE IF q.den < 0 THEN q.num > k * q.den
    ELSE FALSE

VARIABLES
    config,        \* Configuration after args.Parse(), plus scheme and args.Good()
    pc,            \* position of main()
    exitStatus,    \* return value of main() or the signal that killed it, "running" before
    odeSolver,     \* the ODESolver object selected, "NULL" before
    LumpedMassMat, \* Vector LumpedMassMat
    hyp,           \* the HyperbolicSystem: its flags and u0
    warned,        \* MFEM_WARNING was issued
    u,             \* GridFunction u
    InitialMass,   \* double InitialMass
    uOld,          \* evol.uOld; <<>> is the Vector of size 0
    t,             \* double t
    dt,            \* double dt
    ti,            \* int ti
    done,          \* bool done
    res,           \* double res, a fraction; Unset while uninitialized
    sout,          \* what VisualizeField sent last: the snapshot and its ti
    files,         \* what was saved to initial.gf / final.gf
    report,        \* the diagnostics printed after the loop
    nEval,         \* derivative evaluations (FE_Evolution::Mult) of the last Step
    nCheck,        \* ConvergenceCheck calls since the last Step
    rank,          \* phypsys.cpp: the locals of main() on every MPI rank
    chan,          \* phypsys.cpp: boundary values in flight between two ranks
    setup,         \* phypsys.cpp: the problem the configuration selects, once known
    mcl            \* one evaluation of the MCL operator: inputs and results

\* the state of the serial driver
serialVars == <<pc, exitStatus, odeSolver, LumpedMassMat, hyp, warned, u,
                InitialMass, uOld, t, dt, ti, done, res, sout, files, report,
                nEval, nCheck>>

\* the state of the MPI driver
parVars == <<rank, chan, setup>>

vars == <<config, serialVars, parVars, mcl>>

(* --------------------------- configuration ----------------------------- *)
\* what OptionsParser can leave in the Configuration (hypsys.cpp:21-45):
\* every option is an unchecked number
Configs ==
    [good : BOOLEAN,
     odeSolverType : 0..MaxSolverType,
     ProblemNum : 0..MaxProblemNum,
     tFinal : 0..MaxT,
     dt : 0..MaxDt,
     VisSteps : 0..MaxVisSteps,
     scheme : {0, 1}]

\* the Advection problems that a configuration can construct: its flags and
\* its initial state
Problems ==
    [SteadyState : BOOLEAN, SolutionKnown : BOOLEAN, FileOutput : BOOLEAN,
     u0 : States]

NoProblem == [SteadyState |-> FALSE, SolutionKnown |-> FALSE,
              FileOutput |-> FALSE, u0 |-> <<>>]

\* no file has been written
NoFiles == [initial |-> <<>>, final |-> <<>>]

\* an uninitialized double
Unset == [num |-> 0, den |-> 0]

\* nothing has been printed
NoReport == [mass |-> Unset, errors |-> FALSE]

\* nothing has been sent to the visualization socket
NoPlot == [u |-> <<>>, ti |-> -1]

\* main() of hypsys.cpp after args.Parse(); the MPI driver is not running
InitSerial ==
    /\ config \in Configs
    /\ rank = [r \in Ranks |-> [pc |-> "off"]]
    /\ chan = [l \in Links |-> <<>>]
    /\ setup = {}
    /\ mcl = [pc |-> "off"]
    /\ pc = "parse"
    /\ exitStatus = "running"
    /\ odeSolver = "NULL"
    /\ LumpedMassMat = <<>>
    /\ hyp = NoProblem
    /\ warned = FALSE
    /\ u = <<>>
    /\ InitialMass = 0
    /\ uOld = <<>>
    /\ t = 0
    /\ dt = 0
    /\ ti = 0
    /\ done = FALSE
    /\ res = Unset
    /\ sout = NoPlot
    /\ files = NoFiles
    /\ report = NoReport
    /\ nEval = 0
    /\ nCheck = 0

(* ------------------- the serial driver, hypsys.cpp --------------------- *)
\* return -1 from main(): the process ends with a non-zero status
Abort ==
    /\ pc' = "exit"
    /\ exitStatus' = "-1"

\* args.Parse(); if (!args.Good()) { PrintUsage; return -1; }
ParseArgs ==
    /\ pc = "parse"
    /\ IF config.good
         THEN pc' = "solver" /\ exitStatus' = exitStatus
         ELSE Abort
    /\ UNCHANGED <<config, mcl, parVars, odeSolver, LumpedMassMat, hyp, warned, u,
                   InitialMass, uOld, t, dt, ti, done, res, sout, files,
                   report, nEval, nCheck>>

\* a switch (config.odeSolverType) without its default case: no type
\* makes main() return
SolverKnownNoDefault(type) == TRUE

\* the cases of switch (config.odeSolverType)
SolverKnown(type) == type \in {1, 2, 3}

\* the ODESolver each case constructs
NewODESolver(type) ==
    CASE type = 1 -> "ForwardEulerSolver"
      [] type = 2 -> "RK2Solver"
      [] type = 3 -> "RK3SSPSolver"
      [] OTHER -> "NULL"

\* switch (config.odeSolverType) ... default: return -1
SelectSolver ==
    /\ pc = "solver"
    /\ IF SolverKnown(config.odeSolverType)
         THEN /\ odeSolver' = NewODESolver(config.odeSolverType)
              /\ pc' = "space"
              /\ exitStatus' = exitStatus
         ELSE /\ Abort
              /\ odeSolver' = odeSolver
    /\ UNCHANGED <<config, mcl, parVars, LumpedMassMat, hyp, warned, u, InitialMass, uOld,
                   t, dt, ti, done, res, sout, files, report, nEval, nCheck>>

\* mesh, finite element spaces, DofInfo and the lumped mass matrix: the
\* diagonal of the lumped mass form, one positive entry per dof
BuildSpace ==
    /\ pc = "space"
    /\ LumpedMassMat' \in Masses
    /\ pc' = "problem"
    /\ UNCHANGED <<config, mcl, parVars, exitStatus, odeSolver, hyp, warned, u, InitialMass,
                   uOld, t, dt, ti, done, res, sout, files, report, nEval,
                   nCheck>>

\* the cases of switch (config.ProblemNum)
ProblemKnown(num) == num = 0

\* switch (config.ProblemNum) { case 0: hyp = new Advection; default: return -1 }
SelectProblem ==
    /\ pc = "problem"
    /\ IF ProblemKnown(config.ProblemNum)
         THEN /\ hyp' \in Problems
              /\ pc' = "warn"
              /\ exitStatus' = exitStatus
         ELSE /\ Abort
              /\ hyp' = hyp
    /\ UNCHANGED <<config, mcl, parVars, odeSolver, LumpedMassMat, warned, u, InitialMass,
                   uOld, t, dt, ti, done, res, sout, files, report, nEval,
                   nCheck>>

\* a warning that does not look at the integrator
NeedsWarningIfSteady(type, steady) == steady

\* config.odeSolverType != 1 && hyp->SteadyState
NeedsWarning(type, steady) == type # 1 /\ steady

\* if (...) { MFEM_WARNING(...); }: a message, the run goes on
Warn ==
    /\ pc = "warn"
    /\ warned' = NeedsWarning(config.odeSolverType, hyp.SteadyState)
    /\ pc' = "initial"
    /\ UNCHANGED <<config, mcl, parVars, exitStatus, odeSolver, LumpedMassMat, hyp, u,
                   InitialMass, uOld, t, dt, ti, done, res, sout, files,
                   report, nEval, nCheck>>

\* u = hyp->u0; InitialMass = LumpedMassMat * u; initial.gf; VisualizeField
InitialState ==
    /\ pc = "initial"
    /\ u' = hyp.u0
    /\ InitialMass' = Dot(LumpedMassMat, u')
    /\ files' = IF hyp.FileOutput THEN [files EXCEPT !.initial = u'] ELSE files
    /\ sout' = [u |-> u', ti |-> 0]
    /\ pc' = "evol"
    /\ UNCHANGED <<config, mcl, parVars, exitStatus, odeSolver, LumpedMassMat, hyp, warned,
                   uOld, t, dt, ti, done, res, report, nEval, nCheck>>

\* an evolution operator that takes the mass vector and scales it to one
CreateEvolutionNormalisesMass ==
    /\ pc = "evol"
    /\ LumpedMassMat' = ConstVec(Dofs, 1)
    /\ uOld' = IF hyp.SteadyState THEN ConstVec(Dofs, 0) ELSE uOld
    /\ done' = FALSE
    /\ t' = 0
    /\ ti' = 0
    /\ pc' = "loop"
    /\ UNCHANGED <<config, mcl, parVars, exitStatus, odeSolver, hyp, warned,
                   u, InitialMass, dt, res, sout, files, report, nEval,
                   nCheck>>

\* a driver that starts uOld from the initial state
CreateEvolutionFromInitialState ==
    /\ pc = "evol"
    /\ uOld' = IF hyp.SteadyState THEN u ELSE uOld
    /\ done' = FALSE
    /\ t' = 0
    /\ ti' = 0
    /\ pc' = "loop"
    /\ UNCHANGED <<config, mcl, parVars, exitStatus, odeSolver, LumpedMassMat, hyp, warned,
                   u, InitialMass, dt, res, sout, files, report, nEval,
                   nCheck>>

\* FE_Evolution evol(...); odeSolver->Init(evol);
\* if (hyp->SteadyState) { evol.uOld.SetSize(ProblemSize); evol.uOld = 0.; }
\* bool done = false; t = 0.; ti = 0
CreateEvolution ==
    /\ pc = "evol"
    /\ uOld' = IF hyp.SteadyState THEN ConstVec(Dofs, 0) ELSE uOld
    /\ done' = FALSE
    /\ t' = 0
    /\ ti' = 0
    /\ pc' = "loop"
    /\ UNCHANGED <<config, mcl, parVars, exitStatus, odeSolver, LumpedMassMat, hyp, warned,
                   u, InitialMass, dt, res, sout, files, report, nEval,
                   nCheck>>

\* a step that is never shortened: dt = config.dt
StepSizeUnshortened(cdt, tFinal, time) == cdt

\* dt = min(config.dt, config.tFinal - t)
StepSize(cdt, tFinal, time) == Min(cdt, tFinal - time)

\* t >= config.tFinal - 1.e-8*config.dt; for whole numbers t and tFinal
\* this is tFinal - t <= floor(dt / 1e8), which stays inside the integers of
\* the model checker on every time scale
TimeReached(time, tFinal, cdt) == tFinal - time <= cdt \div EpsInv

\* the stages of the explicit integrators: each stage is one evaluation of
\* the evolution operator
Stages(solver) ==
    CASE solver = "ForwardEulerSolver" -> 1
      [] solver = "RK2Solver" -> 2
      [] solver = "RK3SSPSolver" -> 3
      [] OTHER -> 0

\* the states odeSolver->Step(u, t, dt) can leave in u: x + dt*(...), which
\* is x itself for dt = 0
StepResults(x, h) == IF h = 0 THEN {x} ELSE [DOMAIN x -> Vals]

\* one pass of the loop head: dt = min(...); odeSolver->Step(u, t, dt);
\* ti++; done = (t >= config.tFinal - 1.e-8*config.dt)
TimeStep ==
    /\ pc = "loop"
    /\ ~done
    /\ dt' = StepSize(config.dt, config.tFinal, t)
    /\ u' \in StepResults(u, dt')
    /\ t' = t + dt'
    /\ nEval' = Stages(odeSolver)
    /\ nCheck' = 0
    /\ ti' = (ti + 1) % IntWrap
    /\ done' = TimeReached(t', config.tFinal, config.dt)
    /\ pc' = "check"
    /\ UNCHANGED <<config, mcl, parVars, exitStatus, odeSolver, LumpedMassMat, hyp, warned,
                   InitialMass, uOld, res, sout, files, report>>

\* the mass-weighted norm of x - old
ResidualNorm(old, x, mass) ==
    SumOver([i \in DOMAIN x |-> mass[i] * Abs(x[i] - old[i])], DOMAIN x)

\* FE_Evolution::ConvergenceCheck(dt, tol, u): the mass-weighted norm of
\* (u - uOld)/dt; uOld <- u
ConvergenceCheck(h, old, x, mass) ==
    [res |-> [num |-> ResidualNorm(old, x, mass), den |-> h],
     uOld |-> x]

\* res < tol
Converged(r) == FracLess(r, tol)

\* a loop body without the convergence check
NeedsConvergenceCheckNever(problem) == FALSE

\* if (hyp->SteadyState)
NeedsConvergenceCheck(problem) == problem.SteadyState

\* a convergence test that restores the uOld read before the check
\* overwrote it, which is the state of the step before
CheckConvergenceRestoresPrevious ==
    /\ pc = "check"
    /\ IF NeedsConvergenceCheck(hyp)
         THEN LET c == ConvergenceCheck(dt, uOld, u, LumpedMassMat)
              IN /\ res' = c.res
                 /\ uOld' = c.uOld
                 /\ nCheck' = nCheck + 1
                 /\ IF Converged(c.res)
                      THEN done' = TRUE /\ u' = uOld
                      ELSE done' = done /\ u' = u
         ELSE UNCHANGED <<res, uOld, nCheck, done, u>>
    /\ pc' = "vis"
    /\ UNCHANGED <<config, mcl, parVars, exitStatus, odeSolver, LumpedMassMat, hyp, warned,
                   InitialMass, t, dt, ti, sout, files, report, nEval>>

\* if (hyp->SteadyState) { res = evol.ConvergenceCheck(dt, tol, u);
\*    if (res < tol) { done = true; u = evol.uOld; } }
CheckConvergence ==
    /\ pc = "check"
    /\ IF NeedsConvergenceCheck(hyp)
         THEN LET c == ConvergenceCheck(dt, uOld, u, LumpedMassMat)
              IN /\ res' = c.res
                 /\ uOld' = c.uOld
                 /\ nCheck' = nCheck + 1
                 /\ IF Converged(c.res)
                      THEN done' = TRUE /\ u' = c.uOld
                      ELSE done' = done /\ u' = u
         ELSE UNCHANGED <<res, uOld, nCheck, done, u>>
    /\ pc' = "vis"
    /\ UNCHANGED <<config, mcl, parVars, exitStatus, odeSolver, LumpedMassMat, hyp, warned,
                   InitialMass, t, dt, ti, sout, files, report, nEval>>

\* a test that forgets the last pass: ti % config.VisSteps == 0
VisDuePeriodicOnly(fin, step, every) ==
    IF every = 0 THEN {"SIGFPE", "yes", "no"}
    ELSE IF step % every = 0 THEN {"yes"} ELSE {"no"}

\* done || ti % config.VisSteps == 0.  The remainder by zero is undefined:
\* the process is killed by SIGFPE, or the test has either value.
VisDue(fin, step, every) ==
    IF fin THEN {"yes"}
    ELSE IF every = 0 THEN {"SIGFPE", "yes", "no"}
    ELSE IF step % every = 0 THEN {"yes"} ELSE {"no"}

\* if (done || ti % config.VisSteps == 0) { cout << ...; VisualizeField; }
\* and the loop condition !done
Visualize ==
    /\ pc = "vis"
    /\ \E due \in VisDue(done, ti, config.VisSteps) :
         IF due = "SIGFPE"
           THEN /\ pc' = "exit"
                /\ exitStatus' = "SIGFPE"
                /\ sout' = sout
           ELSE /\ sout' = IF due = "yes" THEN [u |-> u, ti |-> ti] ELSE sout
                /\ pc' = IF done THEN "mass" ELSE "loop"
                /\ exitStatus' = exitStatus
    /\ UNCHANGED <<config, mcl, parVars, odeSolver, LumpedMassMat, hyp, warned, u,
                   InitialMass, uOld, t, dt, ti, done, res, files, report,
                   nEval, nCheck>>

\* a mass report that gives up the run when the mass has drifted
ReportMassAbortsOnDrift ==
    /\ pc = "mass"
    /\ report' = [report EXCEPT !.mass =
                     [num |-> Abs(InitialMass - Dot(LumpedMassMat, u)),
                      den |-> VecSum(LumpedMassMat)]]
    /\ IF InitialMass # Dot(LumpedMassMat, u)
         THEN pc' = "exit" /\ exitStatus' = "-1"
         ELSE pc' = "errors" /\ exitStatus' = exitStatus
    /\ UNCHANGED <<config, mcl, parVars, odeSolver, LumpedMassMat, hyp, warned,
                   u, InitialMass, uOld, t, dt, ti, done, res, sout, files,
                   nEval, nCheck>>

\* DomainSize = LumpedMassMat.Sum();
\* cout << abs(InitialMass - LumpedMassMat * u) / DomainSize
ReportMass ==
    /\ pc = "mass"
    /\ report' = [report EXCEPT !.mass =
                     [num |-> Abs(InitialMass - Dot(LumpedMassMat, u)),
                      den |-> VecSum(LumpedMassMat)]]
    /\ pc' = "errors"
    /\ UNCHANGED <<config, mcl, parVars, exitStatus, odeSolver, LumpedMassMat, hyp, warned,
                   u, InitialMass, uOld, t, dt, ti, done, res, sout, files,
                   nEval, nCheck>>

\* an error report that does not look at FileOutput
ReportErrorsIfKnown ==
    /\ pc = "errors"
    /\ report' = [report EXCEPT !.errors = hyp.SolutionKnown]
    /\ pc' = "save"
    /\ UNCHANGED <<config, mcl, parVars, exitStatus, odeSolver, LumpedMassMat, hyp, warned,
                   u, InitialMass, uOld, t, dt, ti, done, res, sout, files,
                   nEval, nCheck>>

\* if (hyp->SolutionKnown && hyp->FileOutput) { ComputeErrors; WriteErrors; }
ReportErrors ==
    /\ pc = "errors"
    /\ report' = [report EXCEPT !.errors = hyp.SolutionKnown /\ hyp.FileOutput]
    /\ pc' = "save"
    /\ UNCHANGED <<config, mcl, parVars, exitStatus, odeSolver, LumpedMassMat, hyp, warned,
                   u, InitialMass, uOld, t, dt, ti, done, res, sout, files,
                   nEval, nCheck>>

\* if (hyp->FileOutput) { ofstream osol("final.gf"); u.Save(osol); }
\* delete hyp; delete odeSolver; return 0;
SaveAndReturn ==
    /\ pc = "save"
    /\ files' = IF hyp.FileOutput THEN [files EXCEPT !.final = u] ELSE files
    /\ pc' = "exit"
    /\ exitStatus' = "0"
    /\ UNCHANGED <<config, mcl, parVars, odeSolver, LumpedMassMat, hyp, warned, u,
                   InitialMass, uOld, t, dt, ti, done, res, sout, report,
                   nEval, nCheck>>

NextSerial ==
    \/ ParseArgs
    \/ SelectSolver
    \/ BuildSpace
    \/ SelectProblem
    \/ Warn
    \/ InitialState
    \/ CreateEvolution
    \/ TimeStep
    \/ CheckConvergence
    \/ Visualize
    \/ ReportMass
    \/ ReportErrors
    \/ SaveAndReturn

(* --------------------- the MPI driver, phypsys.cpp --------------------- *)
\* the locals of main() on one rank when it starts
FreshRank(r) ==
    [pc |-> "parse", exitStatus |-> "running", odeSolver |-> "NULL",
     LumpedMassMat |-> <<>>, hyp |-> NoProblem, warned |-> FALSE, u |-> <<>>,
     MassMPI |-> 0, InitialMass |-> 0, uOld |-> <<>>, t |-> 0, dt |-> 0,
     ti |-> 0, done |-> FALSE, res |-> Unset, sout |-> NoPlot,
     files |-> NoFiles, report |-> NoReport, DomainSize |-> 0,
     FinalMass |-> 0, wait |-> "none", sendbuf |-> 0, stage |-> 0, nEval |-> 0, nCheck |-> 0, evalNo |-> 0, nExch |-> 0,
     ghost |-> [q \in Nbrs(r) |-> [val |-> 0, tag |-> -1]]]

\* the command lines the MPI driver is explored on: those with a positive
\* time step and a positive visualization interval (the loop of the serial
\* driver, which is the same loop, is explored on all of Configs)
ParConfigs == {c \in Configs : c.dt >= 1 /\ c.VisSteps >= 1}

\* the serial driver is not running
SerialOff ==
    /\ pc = "off"
    /\ exitStatus = "running"
    /\ odeSolver = "NULL"
    /\ LumpedMassMat = <<>>
    /\ hyp = NoProblem
    /\ warned = FALSE
    /\ u = <<>>
    /\ InitialMass = 0
    /\ uOld = <<>>
    /\ t = 0
    /\ dt = 0
    /\ ti = 0
    /\ done = FALSE
    /\ res = Unset
    /\ sout = NoPlot
    /\ files = NoFiles
    /\ report = NoReport
    /\ nEval = 0
    /\ nCheck = 0

\* every rank runs main() of phypsys.cpp on the same command line
InitPar ==
    /\ config \in ParConfigs
    /\ rank = [r \in Ranks |-> FreshRank(r)]
    /\ chan = [l \in Links |-> <<>>]
    /\ setup = {}
    /\ mcl = [pc |-> "off"]
    /\ SerialOff

\* the part of a global vector that lives on rank r
Restrict(v, r) == [i \in LocalDofs(r) |-> v[i]]

\* the calling rank blocks in a collective operation of the communicator
EnterCollective(me, kind, value) ==
    [me EXCEPT !.pc = "collective", !.wait = kind, !.sendbuf = value]

\* args.Parse() ... MPI_Allreduce(&MassMPI, &InitialMass, ...): everything
\* up to the first collective, with the three return -1
PStart(r) ==
    /\ rank[r].pc = "parse"
    /\ LET me == rank[r]
       IN IF ~config.good \/ ~SolverKnown(config.odeSolverType)
               \/ ~ProblemKnown(config.ProblemNum)
            THEN /\ rank' = [rank EXCEPT ![r] =
                       [me EXCEPT !.pc = "exit", !.exitStatus = "-1",
                          !.odeSolver = IF config.good
                                          THEN NewODESolver(config.odeSolverType)
                                          ELSE "NULL"]]
                 /\ setup' = setup
            ELSE \E prob \in IF setup = {} THEN Problems ELSE setup :
                   LET u0 == Restrict(prob.u0, r)
                       mass == Restrict(MeshMass, r)
                   IN /\ setup' = {prob}
                      /\ rank' = [rank EXCEPT ![r] =
                            EnterCollective(
                              [me EXCEPT
                                 !.odeSolver = NewODESolver(config.odeSolverType),
                                 !.LumpedMassMat = mass,
                                 !.hyp = [prob EXCEPT !.u0 = u0],
                                 !.warned = NeedsWarning(config.odeSolverType,
                                                         prob.SteadyState),
                                 !.u = u0,
                                 !.MassMPI = Dot(mass, u0)],
                              "InitialMass", Dot(mass, u0))]
    /\ UNCHANGED <<config, mcl, serialVars, chan>>

\* the kinds of MPI_Allreduce the driver and the evolution operator call
AllreduceKinds == {"InitialMass", "res", "DomainSize", "FinalMass"}

\* a reduction with MPI_MAX
ReduceMax(ranks) ==
    CHOOSE m \in {ranks[q].sendbuf : q \in Ranks} :
      \A q \in Ranks : ranks[q].sendbuf <= m

\* MPI_SUM over the send buffers of all ranks
ReduceSum(ranks) == SumOver([q \in Ranks |-> ranks[q].sendbuf], Ranks)

\* the receive buffer of the MPI_Allreduce a rank is blocked in gets the
\* sum, and the rank goes on after the call
Deliver(me, total) ==
    CASE me.wait = "InitialMass" ->
           [me EXCEPT !.InitialMass = total, !.pc = "output", !.wait = "none"]
      [] me.wait = "res" ->
           [me EXCEPT !.res = [num |-> total, den |-> me.dt],
                      !.pc = "vis", !.wait = "none"]
      [] me.wait = "DomainSize" ->
           [me EXCEPT !.DomainSize = total, !.pc = "finalmass",
                      !.wait = "none"]
      [] OTHER ->
           [me EXCEPT !.FinalMass = total, !.pc = "finish", !.wait = "none"]

\* MPI_Allreduce(..., MPI_SUM, comm) completes once every rank of the
\* communicator has called it
AllreduceComplete ==
    /\ \A q \in Ranks : rank[q].pc = "collective"
                          /\ rank[q].wait \in AllreduceKinds
    /\ rank' = [q \in Ranks |-> Deliver(rank[q], ReduceSum(rank))]
    /\ UNCHANGED <<config, mcl, serialVars, chan, setup>>

\* if (hyp->FileOutput) { PrintAsOne; SaveAsOne; }  MPI_Barrier(...)
PInitialOutput(r) ==
    /\ rank[r].pc = "output"
    /\ LET me == rank[r]
       IN rank' = [rank EXCEPT ![r] =
             EnterCollective(
               [me EXCEPT !.files = IF me.hyp.FileOutput
                                      THEN [me.files EXCEPT !.initial = me.u]
                                      ELSE me.files],
               "Barrier", 0)]
    /\ UNCHANGED <<config, mcl, serialVars, chan, setup>>

\* MPI_Barrier completes once every rank has called it
BarrierComplete ==
    /\ \A q \in Ranks : rank[q].pc = "collective" /\ rank[q].wait = "Barrier"
    /\ rank' = [q \in Ranks |->
                  [rank[q] EXCEPT !.pc = "evol", !.wait = "none"]]
    /\ UNCHANGED <<config, mcl, serialVars, chan, setup>>

\* ParVisualizeField; ParFE_Evolution pevol(...); odeSolver->Init(pevol);
\* if (hyp->SteadyState) { pevol.uOld.SetSize(pfes.GetVSize()); uOld = 0.; }
\* bool done = false; t = 0.; ti = 0
PCreateEvolution(r) ==
    /\ rank[r].pc = "evol"
    /\ LET me == rank[r]
       IN rank' = [rank EXCEPT ![r] =
             [me EXCEPT !.sout = [u |-> me.u, ti |-> 0],
                        !.uOld = IF me.hyp.SteadyState
                                   THEN ConstVec(LocalDofs(r), 0)
                                   ELSE me.uOld,
                        !.done = FALSE, !.t = 0, !.ti = 0, !.pc = "loop"]]
    /\ UNCHANGED <<config, mcl, serialVars, chan, setup>>

\* the value of the dof of x on rank r that faces rank q
BoundaryValue(x, r, q) ==
    LET mine == LocalDofs(r)
        i == IF q > r THEN CHOOSE k \in mine : \A j \in mine : j <= k
             ELSE CHOOSE k \in mine : \A j \in mine : k <= j
    IN x[i]

\* the evolution schemes: 0 - Standard, 1 - Monolithic Convex Limiting
IsMCL(scheme) == scheme = 1

\* the exchange of the bounds refresh begins: rank r sends the values of
\* its partition boundary dofs of x, for its evaluation number tag, to the
\* ranks that share them
SendBoundary(links, r, x, tag) ==
    [l \in Links |->
       IF l[1] = r
         THEN Append(links[l], [val |-> BoundaryValue(x, r, l[2]), tag |-> tag])
         ELSE links[l]]

\* Step has returned with the state x after k evaluations:
\* ti++; done = (t >= config.tFinal - 1.e-8*config.dt); if (hyp->SteadyState)
FinishStep(me, x, k) ==
    [me EXCEPT !.u = x, !.stage = 0, !.nEval = k,
               !.t = me.t + me.dt,
               !.ti = (me.ti + 1) % IntWrap,
               !.done = TimeReached(me.t + me.dt, config.tFinal, config.dt),
               !.pc = IF NeedsConvergenceCheck(me.hyp) THEN "check" ELSE "vis"]

\* dt = min(config.dt, config.tFinal - t); odeSolver->Step(u, t, dt).
\* Standard scheme: the stages evaluate the operator on the rank's own
\* data and Step returns.  MCL scheme: the first evaluation begins with the
\* exchange of the boundary values, for which the rank then waits.
PTimeStep(r) ==
    /\ rank[r].pc = "loop"
    /\ ~rank[r].done
    /\ LET h == StepSize(config.dt, config.tFinal, rank[r].t)
           me == [rank[r] EXCEPT !.dt = h, !.nExch = 0, !.nCheck = 0]
       IN IF IsMCL(config.scheme)
            THEN /\ chan' = SendBoundary(chan, r, me.u,
                                         (me.evalNo + 1) % IntWrap)
                 /\ rank' = [rank EXCEPT ![r] =
                       [me EXCEPT !.stage = 1,
                                  !.evalNo = (@ + 1) % IntWrap,
                                  !.pc = "recv"]]
            ELSE /\ chan' = chan
                 /\ \E x \in StepResults(me.u, h) :
                      rank' = [rank EXCEPT ![r] =
                         FinishStep([me EXCEPT !.evalNo =
                                       (@ + Stages(me.odeSolver)) % IntWrap],
                                    x, Stages(me.odeSolver))]
    /\ UNCHANGED <<config, mcl, serialVars, setup>>

\* a refresh that does not wait for the exchange
ExchangeCompleteNoWait(links, r) == TRUE

\* the refresh may use the remote values once the exchange has completed
ExchangeComplete(links, r) == \A q \in Nbrs(r) : links[<<q, r>>] # <<>>

\* MCL scheme: the refresh blocks until the values of all neighbours have
\* arrived; then the bounds, the limiter and the derivative are computed
\* and the stage is over.  The next stage evaluates the operator at a stage
\* state x and begins with its own exchange; after the last stage Step
\* returns with the new state x.
PRecvBoundary(r) ==
    /\ rank[r].pc = "recv"
    /\ ExchangeComplete(chan, r)
    /\ LET me == [rank[r] EXCEPT
                    !.ghost = [q \in Nbrs(r) |->
                                 IF chan[<<q, r>>] # <<>>
                                   THEN Head(chan[<<q, r>>])
                                   ELSE rank[r].ghost[q]],
                    !.nExch = @ + 1]
           rest == [l \in Links |->
                      IF l[2] = r /\ chan[l] # <<>>
                        THEN Tail(chan[l]) ELSE chan[l]]
       IN \E x \in StepResults(me.u, me.dt) :
            IF me.stage < Stages(me.odeSolver)
              THEN /\ chan' = SendBoundary(rest, r, x,
                                           (me.evalNo + 1) % IntWrap)
                   /\ rank' = [rank EXCEPT ![r] =
                         [me EXCEPT !.stage = me.stage + 1,
                                    !.evalNo = (@ + 1) % IntWrap]]
              ELSE /\ chan' = rest
                   /\ rank' = [rank EXCEPT ![r] =
                                  FinishStep(me, x, me.stage)]
    /\ UNCHANGED <<config, mcl, serialVars, setup>>

\* res = pevol.ConvergenceCheck(dt, tol, u): the local norms of all ranks
\* are summed by an MPI_Allreduce; uOld <- u
PCheckConvergence(r) ==
    /\ rank[r].pc = "check"
    /\ LET me == rank[r]
       IN rank' = [rank EXCEPT ![r] =
             EnterCollective(
               [me EXCEPT !.uOld = me.u, !.nCheck = me.nCheck + 1],
               "res", ResidualNorm(me.uOld, me.u, me.LumpedMassMat))]
    /\ UNCHANGED <<config, mcl, serialVars, chan, setup>>

\* a test of the rank's own part of the residual
AfterCheckLocalResidual(me) ==
    IF NeedsConvergenceCheck(me.hyp)
         /\ Converged([num |-> me.sendbuf, den |-> me.dt])
      THEN [me EXCEPT !.done = TRUE, !.u = me.uOld]
      ELSE me

\* if (res < tol) { done = true; u = pevol.uOld; }
AfterCheck(me) ==
    IF NeedsConvergenceCheck(me.hyp) /\ Converged(me.res)
      THEN [me EXCEPT !.done = TRUE, !.u = me.uOld]
      ELSE me

\* the rest of the loop body: the test of the residual, then
\* if (done || ti % config.VisSteps == 0) { ...; ParVisualizeField; }
\* the loop condition !done, and after the loop
\* DomainSizeMPI = LumpedMassMat.Sum(); MPI_Allreduce(&DomainSizeMPI, ...)
PVisualize(r) ==
    /\ rank[r].pc = "vis"
    /\ LET me == AfterCheck(rank[r])
       IN \E due \in VisDue(me.done, me.ti, config.VisSteps) :
            rank' = [rank EXCEPT ![r] =
              IF due = "SIGFPE"
                THEN [me EXCEPT !.pc = "exit", !.exitStatus = "SIGFPE"]
                ELSE LET seen == [me EXCEPT !.sout =
                                    IF due = "yes"
                                      THEN [u |-> me.u, ti |-> me.ti]
                                      ELSE me.sout]
                     IN IF me.done
                          THEN EnterCollective(seen, "DomainSize",
                                               VecSum(me.LumpedMassMat))
                          ELSE [seen EXCEPT !.pc = "loop"]]
    /\ UNCHANGED <<config, mcl, serialVars, chan, setup>>

\* a final reduction that sends the MassMPI computed before the loop
PFinalMassStale(r) ==
    /\ rank[r].pc = "finalmass"
    /\ rank' = [rank EXCEPT ![r] =
          EnterCollective(rank[r], "FinalMass", rank[r].MassMPI)]
    /\ UNCHANGED <<config, mcl, serialVars, chan, setup>>

\* MassMPI = LumpedMassMat * u; MPI_Allreduce(&MassMPI, &FinalMass, ...)
PFinalMass(r) ==
    /\ rank[r].pc = "finalmass"
    /\ LET me == rank[r]
           m == Dot(me.LumpedMassMat, me.u)
       IN rank' = [rank EXCEPT ![r] =
             EnterCollective([me EXCEPT !.MassMPI = m], "FinalMass", m)]
    /\ UNCHANGED <<config, mcl, serialVars, chan, setup>>

\* the mass difference (printed by rank 0), the errors, final.gf, return 0
PFinish(r) ==
    /\ rank[r].pc = "finish"
    /\ LET me == rank[r]
       IN rank' = [rank EXCEPT ![r] =
             [me EXCEPT
                !.report = [mass |-> [num |-> Abs(me.InitialMass - me.FinalMass),
                                      den |-> me.DomainSize],
                            errors |-> me.hyp.SolutionKnown
                                         /\ me.hyp.FileOutput],
                !.files = IF me.hyp.FileOutput
                            THEN [me.files EXCEPT !.final = me.u]
                            ELSE me.files,
                !.pc = "exit", !.exitStatus = "0"]]
    /\ UNCHANGED <<config, mcl, serialVars, chan, setup>>

NextPar ==
    \/ \E r \in Ranks : PStart(r)
    \/ AllreduceComplete
    \/ \E r \in Ranks : PInitialOutput(r)
    \/ BarrierComplete
    \/ \E r \in Ranks : PCreateEvolution(r)
    \/ \E r \in Ranks : PTimeStep(r)
    \/ \E r \in Ranks : PRecvBoundary(r)
    \/ \E r \in Ranks : PCheckConvergence(r)
    \/ \E r \in Ranks : PVisualize(r)
    \/ \E r \in Ranks : PFinalMass(r)
    \/ \E r \in Ranks : PFinish(r)

(* ------------- one evaluation of the MCL evolution operator ------------- *)
(* FE_Evolution::Mult for the Monolithic Convex Limiting scheme, on a mesh  *)
(* of a chain of elements with two dofs each: dofs 2e-1 and 2e belong to    *)
(* element e, and dof 2e faces dof 2e+1 of the next element.  Quantities    *)
(* are kept without their divisions: a bar state as 2*d_ij*ubar_ij, a rate  *)
(* as mass_i * du_i/dt, a limiter coefficient as a fraction.                *)

\* the dofs of the mesh
MclDofs == 1..NMclDofs

\* the element of dof i
Element(i) == (i + 1) \div 2

\* DofInfo: the other dofs of the element of dof i
SameElement(i) == {j \in MclDofs \ {i} : Element(j) = Element(i)}

\* DofInfo: the dofs of other elements that share a face with dof i
CrossFace(i) == {j \in MclDofs : Element(j) # Element(i) /\ Abs(i - j) = 1}

\* the dofs that dof i exchanges a flux with
Neighbours(i) == SameElement(i) \cup CrossFace(i)

\* the ordered pairs (i, j) of neighbouring dofs
Pairs == {p \in MclDofs \X MclDofs : p[2] \in Neighbours(p[1])}

\* the inputs of an evaluation: the state, the lumped mass, the velocity of
\* the advection problem, the signal speed bound of the problem, and the
\* time derivative of the high-order (Galerkin) approximation
MclInputs ==
    [u : [MclDofs -> 0..MaxU],
     mass : [MclDofs -> 1..MaxMclMass],
     vel : (-MaxSpeed)..MaxSpeed,
     speed : 0..MaxSpeed,
     udot : [MclDofs -> (-MaxRate)..MaxRate]]

\* the stencil whose values do not bound dof i: only its own element
StencilOwnElement(i) == {i} \cup SameElement(i)

\* the stencil whose values bound dof i: the dof itself, then the dofs of
\* its element, then its cross-face neighbours
Stencil(i) == ({i} \cup SameElement(i)) \cup CrossFace(i)

RECURSIVE ExpandMin(_, _, _)
\* the running minimum cur, expanded by the values of x on S
ExpandMin(cur, x, S) ==
    IF S = {} THEN cur
    ELSE LET j == CHOOSE k \in S : TRUE
         IN ExpandMin(IF x[j] < cur THEN x[j] ELSE cur, x, S \ {j})

RECURSIVE ExpandMax(_, _, _)
\* the running maximum cur, expanded by the values of x on S
ExpandMax(cur, x, S) ==
    IF S = {} THEN cur
    ELSE LET j == CHOOSE k \in S : TRUE
         IN ExpandMax(IF x[j] > cur THEN x[j] ELSE cur, x, S \ {j})

\* step 1: the local bounds of every dof over its stencil
ComputeBounds(x) ==
    [min |-> [i \in MclDofs |-> ExpandMin(x[i], x, Stencil(i) \ {i})],
     max |-> [i \in MclDofs |-> ExpandMax(x[i], x, Stencil(i) \ {i})]]

\* the physical flux of the advection problem
EvaluateFlux(in, x) == in.vel * x

\* the unit normal from dof i towards dof j
Normal(i, j) == IF i < j THEN 1 ELSE -1

\* waveSpeedBound(u_i, u_j, normal): an upper bound of the signal speed,
\* never below the speed of the advection
WaveSpeedBound(in) == IF in.speed < Abs(in.vel) THEN Abs(in.vel) ELSE in.speed

\* the graph-Laplacian diffusion coefficient d_ij of a pair
Diffusion(in, i, j) == WaveSpeedBound(in)

\* step 2: the low-order bar state of the pair (i, j), as 2*d_ij*ubar_ij
BarState(in, i, j) ==
    Diffusion(in, i, j) * (in.u[i] + in.u[j])
      - Normal(i, j) * (EvaluateFlux(in, in.u[j]) - EvaluateFlux(in, in.u[i]))

\* step 2: the low-order rate of dof i, as mass_i * du_i/dt: the sum of
\* the pair contributions 2*d_ij*(ubar_ij - u_i)
LowOrderRate(in, i) ==
    SumOver([j \in Neighbours(i) |->
               BarState(in, i, j) - 2 * Diffusion(in, i, j) * in.u[i]],
            Neighbours(i))

\* step 3: the antidiffusive flux of the pair (i, j), high-order minus
\* low-order: the mass matrix correction and the diffusion taken back
AntidiffusiveFlux(in, i, j) ==
    (in.udot[i] - in.udot[j]) + Diffusion(in, i, j) * (in.u[i] - in.u[j])

\* a limiter that lets every flux pass
EndpointAlphaUnlimited(in, bnd, i, j) == [num |-> 1, den |-> 1]

\* step 4, one endpoint: the largest alpha in [0, 1] such that the
\* provisional low-order value of endpoint i for the pair, the bar state,
\* stays inside the bounds of dof i when alpha * F_ij is added
EndpointAlpha(in, bnd, i, j) ==
    LET F == AntidiffusiveFlux(in, i, j)
        B == BarState(in, i, j)
        d2 == 2 * Diffusion(in, i, j)
        room == IF F > 0 THEN d2 * bnd.max[i] - B ELSE B - d2 * bnd.min[i]
    IN IF F = 0 THEN [num |-> 1, den |-> 1]
       ELSE IF room <= 0 THEN [num |-> 0, den |-> Abs(F)]
       ELSE [num |-> Min(Abs(F), room), den |-> Abs(F)]

\* the smaller of two fractions with positive denominators
FracMin(a, b) == IF b.num * a.den < a.num * b.den THEN b ELSE a

\* a limiter in which every endpoint keeps its own coefficient
PairAlphaOwnEndpoint(in, bnd, i, j) == EndpointAlpha(in, bnd, i, j)

\* step 4: the coefficient of the pair is the minimum of the coefficients
\* of its two endpoints
PairAlpha(in, bnd, i, j) ==
    FracMin(EndpointAlpha(in, bnd, i, j), EndpointAlpha(in, bnd, j, i))

\* alpha_ij * F_ij
LimitedFlux(a, F) == (a.num * F) \div a.den

\* an evaluation that has its inputs and has computed nothing
NewEvaluation(in) ==
    [pc |-> "refresh", in |-> in,
     bnd |-> [min |-> [i \in MclDofs |-> 0], max |-> [i \in MclDofs |-> 0]],
     low |-> [i \in MclDofs |-> 0],
     F |-> [p \in Pairs |-> 0],
     alpha |-> [p \in Pairs |-> [num |-> 0, den |-> 1]],
     rate |-> [i \in MclDofs |-> 0],
     dtInv |-> 0,
     unew |-> [i \in MclDofs |-> 0]]

\* the CFL condition of the forward Euler step dt = 1/q:
\* dt * sum_j 2*d_ij <= mass_i for every dof i
CFL(in, q) ==
    \A i \in MclDofs :
      SumOver([j \in Neighbours(i) |-> 2 * Diffusion(in, i, j)], Neighbours(i))
        <= q * in.mass[i]

\* step 1: refresh the local bounds from the current state
RefreshBounds ==
    /\ mcl.pc = "refresh"
    /\ mcl' = [mcl EXCEPT !.bnd = ComputeBounds(mcl.in.u), !.pc = "low"]
    /\ UNCHANGED <<config, serialVars, parVars>>

\* step 2: the low-order update of every dof
LowOrderUpdate ==
    /\ mcl.pc = "low"
    /\ mcl' = [mcl EXCEPT !.low = [i \in MclDofs |-> LowOrderRate(mcl.in, i)],
                          !.pc = "flux"]
    /\ UNCHANGED <<config, serialVars, parVars>>

\* step 3: the antidiffusive flux of every pair
ComputeAntidiffusiveFluxes ==
    /\ mcl.pc = "flux"
    /\ mcl' = [mcl EXCEPT
                 !.F = [p \in Pairs |-> AntidiffusiveFlux(mcl.in, p[1], p[2])],
                 !.pc = "limit"]
    /\ UNCHANGED <<config, serialVars, parVars>>

\* step 4: the limiter coefficient of every pair
Limit ==
    /\ mcl.pc = "limit"
    /\ mcl' = [mcl EXCEPT
                 !.alpha = [p \in Pairs |->
                              PairAlpha(mcl.in, mcl.bnd, p[1], p[2])],
                 !.pc = "assemble"]
    /\ UNCHANGED <<config, serialVars, parVars>>

\* step 5: dState/dt = lowOrder + sum_j alpha_ij * F_ij / mass_i, kept as
\* mass_i * dState_i/dt
Assemble ==
    /\ mcl.pc = "assemble"
    /\ mcl' = [mcl EXCEPT
                 !.rate = [i \in MclDofs |->
                             mcl.low[i]
                               + SumOver([j \in Neighbours(i) |->
                                            LimitedFlux(mcl.alpha[<<i, j>>],
                                                        mcl.F[<<i, j>>])],
                                         Neighbours(i))],
                 !.pc = "done"]
    /\ UNCHANGED <<config, serialVars, parVars>>

\* ForwardEulerSolver::Step with a step dt = 1/q that satisfies the CFL
\* condition: u + dt * dState/dt, kept as q * mass_i * u_i
EulerStep ==
    /\ mcl.pc = "done"
    /\ \E q \in 1..MaxDtInv :
         /\ CFL(mcl.in, q)
         /\ mcl' = [mcl EXCEPT
                      !.dtInv = q,
                      !.unew = [i \in MclDofs |->
                                  q * mcl.in.mass[i] * mcl.in.u[i] + mcl.rate[i]],
                      !.pc = "stepped"]
    /\ UNCHANGED <<config, serialVars, parVars>>

NextMCL ==
    \/ RefreshBounds
    \/ LowOrderUpdate
    \/ ComputeAntidiffusiveFluxes
    \/ Limit
    \/ Assemble
    \/ EulerStep

\* one evaluation of the MCL operator on any inputs; no driver is running
InitMCL ==
    /\ mcl \in {NewEvaluation(in) : in \in MclInputs}
    /\ config = [good |-> TRUE, odeSolverType |-> 1, ProblemNum |-> 0,
                 tFinal |-> 0, dt |-> 0, VisSteps |-> 0, scheme |-> 1]
    /\ rank = [r \in Ranks |-> [pc |-> "off"]]
    /\ chan = [l \in Links |-> <<>>]
    /\ setup = {}
    /\ SerialOff

(* --------------------------- specifications ---------------------------- *)
\* the serial driver alone
SpecSerial == InitSerial /\ [][NextSerial]_vars

\* the MPI driver alone
SpecPar == InitPar /\ [][NextPar]_vars

Init == InitSerial \/ InitPar

Next == NextSerial \/ NextPar

\* a run of either driver
Spec == Init /\ [][Next]_vars

\* one evaluation of the MCL evolution operator
SpecMCL == InitMCL /\ [][NextMCL]_vars

\* the serial driver, which is one process that never waits: it takes its
\* next step whenever it has one
SpecSerialFair == InitSerial /\ [][NextSerial]_vars /\ WF_vars(NextSerial)

\* a run of the MPI driver in which a rank that can go on does go on
SpecParFair == InitPar /\ [][NextPar]_vars /\ WF_vars(NextPar)

\* the command lines of ParConfigs on a time scale with 1e-8 of a time unit
\* as its unit, where the tolerance of the loop condition is a whole
\* number: the time step is a multiple of 1e8 and the final time lies up
\* to MaxSlack above such a multiple
FineConfigs ==
    {c \in {[b EXCEPT !.dt = EpsInv * b.dt, !.tFinal = EpsInv * b.tFinal + e] :
               b \in ParConfigs, e \in 0..MaxSlack} : c.tFinal > 0}

\* either driver is started on a command line of FineConfigs
InitFine ==
    /\ config \in FineConfigs
    /\ chan = [l \in Links |-> <<>>]
    /\ setup = {}
    /\ mcl = [pc |-> "off"]
    /\ \/ /\ rank = [r \in Ranks |-> FreshRank(r)]
          /\ SerialOff
       \/ /\ rank = [r \in Ranks |-> [pc |-> "off"]]
          /\ pc = "parse"
          /\ exitStatus = "running"
          /\ odeSolver = "NULL"
          /\ LumpedMassMat = <<>>
          /\ hyp = NoProblem
          /\ warned = FALSE
          /\ u = <<>>
          /\ InitialMass = 0
          /\ uOld = <<>>
          /\ t = 0
          /\ dt = 0
          /\ ti = 0
          /\ done = FALSE
          /\ res = Unset
          /\ sout = NoPlot
          /\ files = NoFiles
          /\ report = NoReport
          /\ nEval = 0
          /\ nCheck = 0

\* a run of either driver with a positive time step and a positive final
\* time, on the fine time scale
SpecFine == InitFine /\ [][Next]_vars

\* both drivers are started on one command line
InitBoth ==
    /\ config \in ParConfigs
    /\ rank = [r \in Ranks |-> FreshRank(r)]
    /\ chan = [l \in Links |-> <<>>]
    /\ setup = {}
    /\ mcl = [pc |-> "off"]
    /\ pc = "parse"
    /\ exitStatus = "running"
    /\ odeSolver = "NULL"
    /\ LumpedMassMat = <<>>
    /\ hyp = NoProblem
    /\ warned = FALSE
    /\ u = <<>>
    /\ InitialMass = 0
    /\ uOld = <<>>
    /\ t = 0
    /\ dt = 0
    /\ ti = 0
    /\ done = FALSE
    /\ res = Unset
    /\ sout = NoPlot
    /\ files = NoFiles
    /\ report = NoReport
    /\ nEval = 0
    /\ nCheck = 0

\* the serial driver goes ahead by one pass of the loop: it begins a pass
\* when every rank has finished the pass before
SerialTurn ==
    pc = "loop" => \A r \in Ranks : rank[r].pc = "loop" /\ rank[r].ti = ti

\* the ranks follow while the serial driver is at the head of its loop or
\* has returned
ParTurn == pc \in {"loop", "exit"}

\* the serial driver runs on the mesh of the ranks
SameMesh == LumpedMassMat \in {<<>>, MeshMass}

\* the ranks run on the problem of the serial driver, none is ahead of
\* the serial driver or begins a pass before the serial driver has finished
\* it, and a rank that has finished the pass the serial
\* driver finished last holds its part of the state of the serial driver:
\* the evolution operator computes on the partition what it computes on
\* the whole mesh
SameProblemAndSteps ==
    /\ setup \subseteq {hyp}
    /\ \A r \in Ranks :
      /\ rank[r].ti \in {ti, (ti + IntWrap - 1) % IntWrap}
      /\ rank[r].pc = "recv" => rank[r].ti # ti
      /\ (rank[r].pc # "parse" /\ rank[r].exitStatus # "-1") =>
           /\ rank[r].hyp = [hyp EXCEPT !.u0 = Restrict(hyp.u0, r)]
           /\ rank[r].ti = ti => rank[r].u = Restrict(u, r)

\* a step of the serial driver or of a rank
NextBoth ==
    \/ SerialTurn /\ NextSerial /\ SameMesh'
    \/ ParTurn /\ NextPar /\ SameProblemAndSteps'

\* a run of hypsys and a run of phypsys side by side
SpecBoth == InitBoth /\ [][NextBoth]_vars

(* ------------------------- positions of a run --------------------------- *)
\* the serial driver is inside the time loop
InLoop == pc \in {"loop", "check", "vis"}

\* the serial driver has left the time loop by its condition !done
AfterLoop == pc \in {"mass", "errors", "save"} \/ (pc = "exit" /\ exitStatus = "0")

\* rank r runs (the MPI driver is the one that was started)
Running(r) == rank[r].pc # "off"

\* rank r is inside the time loop
PInLoop(r) ==
    \/ rank[r].pc \in {"loop", "recv", "check", "vis"}
    \/ (rank[r].pc = "collective" /\ rank[r].wait = "res")

\* rank r has left the time loop by its condition !done
PAfterLoop(r) ==
    \/ rank[r].pc \in {"finalmass", "finish"}
    \/ (rank[r].pc = "collective" /\ rank[r].wait \in {"DomainSize", "FinalMass"})
    \/ (rank[r].pc = "exit" /\ rank[r].exitStatus = "0")

(* -------------------------------- C1 ------------------------------------ *)
\* the command line names an integrator other than 1, 2, 3 or a problem
\* other than 0
BadChoice == config.odeSolverType \notin {1, 2, 3} \/ config.ProblemNum # 0

\* C1: in both drivers, with an integrator choice other than 1, 2, 3 or a
\* problem number other than 0 the process never enters the time loop, runs
\* no time step and no convergence check, always has a next step until it
\* has returned, and returns -1 (a non-zero status).
C1_BadChoiceAbortsBeforeStepping ==
    BadChoice =>
      /\ pc \in {"off", "parse", "solver", "space", "problem", "exit"}
      /\ nEval = 0 /\ nCheck = 0
      /\ (pc = "exit" => exitStatus = "-1")
      /\ (pc \notin {"off", "exit"} => ENABLED NextSerial)
      /\ \A r \in Ranks :
           /\ rank[r].pc \in {"off", "parse", "exit"}
           /\ (rank[r].pc = "parse" => ENABLED PStart(r))
           /\ (Running(r) => rank[r].nEval = 0 /\ rank[r].nCheck = 0)
           /\ (rank[r].pc = "exit" => rank[r].exitStatus = "-1")

\* a run with well-formed options and a bad choice has returned: hypsys
\* with a known integrator and an unknown problem, or every rank of phypsys
C1_Witness ==
    /\ config.good /\ BadChoice
    /\ \/ pc = "exit" /\ config.odeSolverType \in {1, 2, 3}
       \/ \A r \in Ranks : rank[r].pc = "exit"

(* -------------------------------- C4 ------------------------------------ *)
\* the dofs whose values bound dof i: the dof itself, the dofs of its
\* element, and the dofs next to it across a face of its element
Around(i) ==
    {j \in MclDofs : j = i \/ Element(j) = Element(i) \/ Abs(i - j) = 1}

\* C4: after the stencil refresh the bounds of every dof are the minimum
\* and the maximum of the state over the dof itself, the dofs of its
\* element and its cross-face neighbours, so that min <= u_i <= max.
C4_BoundsAreStencilExtrema ==
    mcl.pc \notin {"off", "refresh"} =>
      \A i \in MclDofs :
        /\ \A j \in Around(i) : /\ mcl.bnd.min[i] <= mcl.in.u[j]
                                /\ mcl.in.u[j] <= mcl.bnd.max[i]
        /\ \E j \in Around(i) : mcl.bnd.min[i] = mcl.in.u[j]
        /\ \E j \in Around(i) : mcl.bnd.max[i] = mcl.in.u[j]
        /\ mcl.bnd.min[i] <= mcl.in.u[i] /\ mcl.in.u[i] <= mcl.bnd.max[i]

\* the bounds are refreshed, and a dof has its minimum only at its
\* cross-face neighbour and its maximum only in its own element
C4_Witness ==
    /\ mcl.pc = "low"
    /\ \E i \in MclDofs :
         /\ \E j \in MclDofs : /\ Element(j) # Element(i) /\ Abs(i - j) = 1
                               /\ mcl.in.u[j] = mcl.bnd.min[i]
         /\ \A j \in MclDofs : Element(j) = Element(i)
                                 => mcl.in.u[j] > mcl.bnd.min[i]
         /\ \E j \in MclDofs \ {i} : /\ Element(j) = Element(i)
                                     /\ mcl.in.u[j] = mcl.bnd.max[i]
         /\ mcl.in.u[i] < mcl.bnd.max[i]

(* -------------------------------- C2 ------------------------------------ *)
\* C2: in an MCL evaluation the antidiffusive fluxes of every pair are
\* antisymmetric, the limiter coefficients symmetric, the limited fluxes sum
\* to zero over each pair and over all ordered pairs, and the mass-weighted
\* sum of the derivative is the one of the low-order update: the limiter
\* does not change it.
C2_LimiterConserves ==
    mcl.pc \in {"done", "stepped"} =>
      /\ \A p \in Pairs :
           LET q == <<p[2], p[1]>>
           IN /\ mcl.F[p] = -mcl.F[q]
              /\ mcl.alpha[p].num * mcl.alpha[q].den
                   = mcl.alpha[q].num * mcl.alpha[p].den
              /\ mcl.alpha[p].num * mcl.F[p] * mcl.alpha[q].den
                   + mcl.alpha[q].num * mcl.F[q] * mcl.alpha[p].den = 0
      /\ SumOver([p \in Pairs |->
                    (mcl.alpha[p].num * mcl.F[p]) \div mcl.alpha[p].den],
                 Pairs) = 0
      /\ SumOver(mcl.rate, MclDofs) = SumOver(mcl.low, MclDofs)

\* the derivative is assembled, and for some pair the two endpoints allow
\* different parts of a non-zero flux, of which the pair takes the smaller
C2_Witness ==
    /\ mcl.pc = "done"
    /\ \E p \in Pairs :
         LET a == EndpointAlpha(mcl.in, mcl.bnd, p[1], p[2])
             b == EndpointAlpha(mcl.in, mcl.bnd, p[2], p[1])
         IN /\ mcl.F[p] # 0
            /\ 0 < a.num /\ a.num < b.num
            /\ mcl.alpha[p].num = a.num
    /\ \E i \in MclDofs : mcl.rate[i] # mcl.low[i]

(* -------------------------------- C3 ------------------------------------ *)
\* C3: every limiter coefficient lies in [0, 1], and the forward Euler
\* update of an MCL evaluation with a step that satisfies the CFL condition
\* dt * sum_j 2*d_ij <= mass_i stays inside the bounds (min_i, max_i) of
\* every dof.
C3_LimitedUpdateStaysInBounds ==
    /\ mcl.pc \in {"assemble", "done", "stepped"} =>
         \A p \in Pairs : /\ mcl.alpha[p].den > 0
                          /\ 0 <= mcl.alpha[p].num
                          /\ mcl.alpha[p].num <= mcl.alpha[p].den
    /\ (/\ mcl.pc = "stepped"
        /\ \A i \in MclDofs :
             2 * WaveSpeedBound(mcl.in) * Cardinality(Neighbours(i))
               <= mcl.dtInv * mcl.in.mass[i]) =>
         \A i \in MclDofs :
           /\ mcl.unew[i] = mcl.dtInv * mcl.in.mass[i] * mcl.in.u[i] + mcl.rate[i]
           /\ mcl.dtInv * mcl.in.mass[i] * mcl.bnd.min[i] <= mcl.unew[i]
           /\ mcl.unew[i] <= mcl.dtInv * mcl.in.mass[i] * mcl.bnd.max[i]

\* a forward Euler step at the CFL limit of some dof, after an evaluation
\* in which a flux was cut to a part of itself, has moved a dof onto one of
\* its bounds
C3_Witness ==
    /\ mcl.pc = "stepped"
    /\ \E p \in Pairs : 0 < mcl.alpha[p].num /\ mcl.alpha[p].num < mcl.alpha[p].den
    /\ \E i \in MclDofs :
         /\ 2 * WaveSpeedBound(mcl.in) * Cardinality(Neighbours(i))
              = mcl.dtInv * mcl.in.mass[i]
         /\ mcl.unew[i] # mcl.dtInv * mcl.in.mass[i] * mcl.in.u[i]
         /\ mcl.unew[i] = mcl.dtInv * mcl.in.mass[i] * mcl.bnd.max[i]

(* -------------------------------- C5 ------------------------------------ *)
\* the loop condition found the final time reached
TimeUp(time) == config.tFinal - time <= config.dt \div EpsInv

\* the residual r is below the tolerance
BelowTol(r) == r.den > 0 /\ r.num < tol * r.den

\* C5: once the time loop is entered the run reaches the end of the loop,
\* and it leaves the loop only with the final time reached or, for a
\* steady-state problem, with the residual below the tolerance.
C5_LoopEndsForOneOfTwoReasons ==
    /\ InLoop ~> AfterLoop
    /\ \A r \in Ranks :
         (Running(r) /\ PInLoop(r)) ~> (Running(r) /\ PAfterLoop(r))
    /\ [][/\ (InLoop /\ ~InLoop') =>
               /\ pc' = "mass"
               /\ \/ TimeUp(t')
                  \/ hyp.SteadyState /\ BelowTol(res')
          /\ \A r \in Ranks :
               (Running(r) /\ PInLoop(r) /\ ~PInLoop(r)') =>
                 /\ PAfterLoop(r)'
                 /\ \/ TimeUp(rank'[r].t)
                    \/ rank[r].hyp.SteadyState /\ BelowTol(rank'[r].res)]_vars

(* -------------------------------- C6 ------------------------------------ *)
\* C6: for a steady-state problem, when the loop has ended with the
\* residual below the tolerance, the state that was visualized last, that
\* enters the final mass and that is saved to final.gf is the uOld stored in
\* the evolution operator.
C6_ConvergedStateIsUOld ==
    /\ (AfterLoop /\ hyp.SteadyState /\ BelowTol(res)) =>
         /\ u = uOld
         /\ sout.u = uOld
         /\ (pc \in {"errors", "save", "exit"} =>
               report.mass.num = Abs(InitialMass - Dot(LumpedMassMat, uOld)))
         /\ (pc = "exit" /\ hyp.FileOutput => files.final = uOld)
    /\ \A r \in Ranks :
         (Running(r) /\ PAfterLoop(r) /\ rank[r].hyp.SteadyState
            /\ BelowTol(rank[r].res)) =>
           /\ rank[r].u = rank[r].uOld
           /\ rank[r].sout.u = rank[r].uOld
           /\ (rank[r].pc \in {"finish", "exit"} \/ rank[r].wait = "FinalMass" =>
                 rank[r].MassMPI = Dot(rank[r].LumpedMassMat, rank[r].uOld))
           /\ (rank[r].pc = "exit" /\ rank[r].hyp.FileOutput =>
                 rank[r].files.final = rank[r].uOld)

\* a steady-state run has converged before the final time, after a step
\* that changed the state: hypsys, or a rank of phypsys
C6_Witness ==
    \/ /\ pc = "exit" /\ exitStatus = "0" /\ hyp.SteadyState /\ BelowTol(res)
       /\ ~TimeUp(t) /\ res.num > 0 /\ hyp.FileOutput
    \/ \E r \in Ranks :
         /\ rank[r].pc = "exit" /\ rank[r].exitStatus = "0"
         /\ rank[r].hyp.SteadyState /\ BelowTol(rank[r].res)
         /\ ~TimeUp(rank[r].t) /\ rank[r].res.num > 0

(* -------------------------------- C7 ------------------------------------ *)
\* C7: for a steady-state problem the convergence check, which is what
\* updates uOld, has run exactly once after the last integrator step
\* whenever the next step begins or the loop has ended, and has not yet run
\* when the step has just returned; for any other problem the check never
\* runs and uOld keeps the size 0 it was constructed with.  uOld changes
\* only where the driver sizes it and in the convergence check.
C7_OneCheckPerStep ==
    /\ [](/\ (pc = "check" => nCheck = 0)
          /\ (hyp.SteadyState /\ nEval > 0 /\ (pc \in {"vis", "loop"} \/ AfterLoop)
                => nCheck = 1)
          /\ (~hyp.SteadyState => nCheck = 0 /\ uOld = <<>>)
          /\ \A r \in Ranks : Running(r) =>
               /\ (rank[r].pc \in {"recv", "check"} => rank[r].nCheck = 0)
               /\ (rank[r].hyp.SteadyState /\ rank[r].nEval > 0
                     /\ (rank[r].pc \in {"vis", "loop"} \/ PAfterLoop(r)
                           \/ rank[r].wait = "res")
                     => rank[r].nCheck = 1)
               /\ (~rank[r].hyp.SteadyState =>
                     rank[r].nCheck = 0 /\ rank[r].uOld = <<>>))
    /\ [][/\ (uOld' # uOld => pc \in {"evol", "check"})
          /\ \A r \in Ranks :
               (Running(r) /\ rank'[r].uOld # rank[r].uOld)
                  => rank[r].pc \in {"evol", "check"}]_vars

\* a steady-state run is in its second pass of the loop, after the check
\* of the second step: hypsys, or a rank of phypsys
C7_Witness ==
    \/ pc = "vis" /\ hyp.SteadyState /\ ti = 2 /\ nCheck = 1 /\ uOld = u
    \/ \E r \in Ranks :
         /\ rank[r].pc = "vis" /\ rank[r].hyp.SteadyState
         /\ rank[r].ti = 2 /\ rank[r].nCheck = 1

(* -------------------------------- C8 ------------------------------------ *)
\* the integrator that Step runs is the one the command line selects
SelectedSolver(s) ==
    /\ (config.odeSolverType = 1 => s = "ForwardEulerSolver")
    /\ (config.odeSolverType = 2 => s = "RK2Solver")
    /\ (config.odeSolverType = 3 => s = "RK3SSPSolver")

\* C8: the warning is issued exactly when the integrator choice is 2 or 3
\* and the problem is steady-state-seeking; a run that was warned does not
\* return -1, goes on into the time loop with the integrator selected, and
\* leaves the loop by the same two conditions as any other run.
C8_WarningOnly ==
    /\ [](/\ (pc \in {"initial", "evol"} \/ InLoop \/ AfterLoop) =>
               /\ warned = (config.odeSolverType \in {2, 3} /\ hyp.SteadyState)
               /\ SelectedSolver(odeSolver)
          /\ (warned /\ pc = "exit" => exitStatus # "-1")
          /\ (warned /\ nEval > 0 => nEval = config.odeSolverType)
          /\ (warned /\ pc \in {"initial", "evol"} => ENABLED NextSerial)
          /\ (warned /\ AfterLoop =>
                TimeUp(t) \/ (hyp.SteadyState /\ BelowTol(res)))
          /\ \A r \in Ranks : (Running(r) /\ rank[r].pc \notin {"parse", "exit"}) =>
               /\ rank[r].warned = (config.odeSolverType \in {2, 3}
                                      /\ rank[r].hyp.SteadyState)
               /\ SelectedSolver(rank[r].odeSolver)
               /\ (rank[r].warned /\ rank[r].nEval > 0
                     => rank[r].nEval = config.odeSolverType)
               /\ (rank[r].warned /\ PAfterLoop(r) =>
                     \/ TimeUp(rank[r].t)
                     \/ rank[r].hyp.SteadyState /\ BelowTol(rank[r].res))
          /\ \A r \in Ranks : (rank[r].pc = "exit" /\ rank[r].warned) =>
               rank[r].exitStatus # "-1")
    /\ [][/\ (warned /\ pc = "initial" => pc' = "evol")
          /\ (warned /\ pc = "evol" => pc' = "loop")
          /\ \A r \in Ranks :
               (Running(r) /\ rank[r].warned /\ rank[r].pc = "evol")
                  => rank'[r].pc \in {"evol", "loop"}]_vars

\* a warned run has taken a time step with the Runge-Kutta integrator it
\* selected: hypsys, or a rank of phypsys
C8_Witness ==
    \/ warned /\ pc = "check" /\ nEval = 3 /\ odeSolver = "RK3SSPSolver"
    \/ \E r \in Ranks : /\ Running(r) /\ rank[r].pc = "check"
                        /\ rank[r].warned /\ rank[r].nEval = 3

(* -------------------------------- C9 ------------------------------------ *)
\* C9: under the MCL scheme a rank completes exactly one exchange of
\* partition boundary values per evaluation of the operator, it goes on to
\* the bounds of evaluation k only when the value of every neighbouring rank
\* has arrived, and the remote values it then holds are the ones its
\* neighbours sent for their evaluation k, never those of an earlier one.
C9_OneExchangePerEvaluation ==
    /\ [](\A r \in Ranks : (Running(r) /\ IsMCL(config.scheme)) =>
            /\ (rank[r].pc = "recv" => rank[r].nExch = rank[r].stage - 1)
            /\ (rank[r].pc # "recv" /\ rank[r].nEval > 0
                  => rank[r].nExch = rank[r].nEval))
    /\ [][\A r \in Ranks :
            (Running(r) /\ IsMCL(config.scheme)
               /\ (rank'[r].nExch = rank[r].nExch + 1
                     \/ rank'[r].nEval # rank[r].nEval
                     \/ rank'[r].ghost # rank[r].ghost)) =>
              /\ rank[r].pc = "recv"
              /\ rank'[r].nExch = rank[r].nExch + 1
              /\ \A q \in Nbrs(r) :
                   /\ chan[<<q, r>>] # <<>>
                   /\ rank'[r].ghost[q] = Head(chan[<<q, r>>])
                   /\ rank'[r].ghost[q].tag = rank[r].evalNo]_vars

\* a rank has finished its second MCL step of three stages, each with the
\* boundary values of that stage
C9_Witness ==
    \E r \in Ranks :
      /\ Running(r) /\ IsMCL(config.scheme)
      /\ rank[r].pc \in {"check", "vis"}
      /\ rank[r].ti = 2 /\ rank[r].nEval = 3 /\ rank[r].nExch = 3
      /\ \A q \in Nbrs(r) : rank[r].ghost[q].tag = rank[r].evalNo
      /\ \E q \in Nbrs(r) : rank[r].ghost[q].val # 0

(* -------------------------------- C10 ----------------------------------- *)
\* rank r has returned from the reduction of the initial mass
PastInitialMass(r) ==
    /\ rank[r].pc \notin {"off", "parse"}
    /\ ~(rank[r].pc = "collective" /\ rank[r].wait = "InitialMass")
    /\ ~(rank[r].pc = "exit" /\ rank[r].exitStatus = "-1")

\* rank r has returned from the reduction of the domain size
PastDomainSize(r) ==
    \/ rank[r].pc \in {"finalmass", "finish"}
    \/ (rank[r].pc = "collective" /\ rank[r].wait = "FinalMass")
    \/ (rank[r].pc = "exit" /\ rank[r].exitStatus = "0")

\* rank r has returned from the reduction of the final mass
PastFinalMass(r) ==
    \/ rank[r].pc = "finish"
    \/ (rank[r].pc = "exit" /\ rank[r].exitStatus = "0")

\* C10: in the MPI driver a rank that has returned from the reduction of
\* InitialMass, of DomainSize or of FinalMass holds the sum over all ranks
\* of the local lumped-mass products with the initial state, of the local
\* lumped masses, or of the local products with the final state; no rank
\* returns from a reduction before every rank has entered it, so every rank
\* holds the same three values.
C10_GlobalSumsOnEveryRank ==
    \A r \in Ranks : Running(r) =>
      /\ PastInitialMass(r) =>
           /\ \A q \in Ranks : rank[q].pc # "parse"
           /\ rank[r].InitialMass =
                SumOver([q \in Ranks |->
                           Dot(rank[q].LumpedMassMat, rank[q].hyp.u0)], Ranks)
           /\ \A q \in Ranks : PastInitialMass(q) =>
                rank[q].InitialMass = rank[r].InitialMass
      /\ PastDomainSize(r) =>
           /\ \A q \in Ranks : PAfterLoop(q)
           /\ rank[r].DomainSize =
                SumOver([q \in Ranks |-> VecSum(rank[q].LumpedMassMat)], Ranks)
           /\ \A q \in Ranks : PastDomainSize(q) =>
                rank[q].DomainSize = rank[r].DomainSize
      /\ PastFinalMass(r) =>
           /\ \A q \in Ranks : PastDomainSize(q)
           /\ rank[r].FinalMass =
                SumOver([q \in Ranks |->
                           Dot(rank[q].LumpedMassMat, rank[q].u)], Ranks)
           /\ \A q \in Ranks : PastFinalMass(q) =>
                rank[q].FinalMass = rank[r].FinalMass

\* every rank has returned 0 after a run whose steps changed the mass on
\* more than one rank
C10_Witness ==
    /\ \A r \in Ranks : rank[r].pc = "exit" /\ rank[r].exitStatus = "0"
    /\ \A r \in Ranks : rank[r].MassMPI
                          # Dot(rank[r].LumpedMassMat, rank[r].hyp.u0)
    /\ \A r \in Ranks : rank[r].FinalMass # rank[r].InitialMass

(* -------------------------------- C11 ----------------------------------- *)
\* C11: the mass drift and the error norms are computed only after the
\* time loop: nothing is reported while a run is before or inside the loop
\* or has ended otherwise; once the loop has ended every step of the run
\* leaves the state, the time and the step count as they are, the serial
\* run goes from the mass report to the error report to the save whatever
\* was reported, and the run returns 0.
C11_DiagnosticsAfterLoopOnly ==
    /\ [](/\ (pc \notin {"errors", "save"} /\ ~(pc = "exit" /\ exitStatus = "0"))
               => report = NoReport
          /\ (AfterLoop /\ pc # "exit" => ENABLED NextSerial)
          /\ \A r \in Ranks :
               (Running(r) /\ ~(rank[r].pc = "exit" /\ rank[r].exitStatus = "0"))
                  => rank[r].report = NoReport)
    /\ [][/\ (AfterLoop /\ pc' # pc) =>
               /\ u' = u /\ ti' = ti /\ t' = t
               /\ (pc = "mass" => pc' = "errors")
               /\ (pc = "errors" => pc' = "save")
               /\ (pc = "save" => pc' = "exit" /\ exitStatus' = "0")
          /\ \A r \in Ranks :
               (Running(r) /\ PAfterLoop(r) /\ rank'[r] # rank[r]) =>
                 /\ PAfterLoop(r)'
                 /\ rank'[r].u = rank[r].u
                 /\ rank'[r].ti = rank[r].ti
                 /\ rank'[r].t = rank[r].t]_vars

\* a run has returned 0 after it reported a mass drift that is not zero
\* and computed the errors: hypsys, or a rank of phypsys
C11_Witness ==
    \/ /\ pc = "exit" /\ exitStatus = "0"
       /\ report.mass.num > 0 /\ report.errors
    \/ \E r \in Ranks :
         /\ rank[r].pc = "exit" /\ rank[r].exitStatus = "0"
         /\ rank[r].report.mass.num > 0 /\ rank[r].report.errors

(* -------------------------------- C12 ----------------------------------- *)
\* the run is past the place of the error norms
PastErrors == pc = "save" \/ (pc = "exit" /\ exitStatus = "0")

\* C12 as stated: after the loop the error norms are computed and reported
\* exactly when the problem has a known solution.
C12_ErrorsIffSolutionKnown ==
    /\ PastErrors => report.errors = hyp.SolutionKnown
    /\ \A r \in Ranks : (rank[r].pc = "exit" /\ rank[r].exitStatus = "0") =>
         rank[r].report.errors = rank[r].hyp.SolutionKnown

\* C12 amended: after the loop the error norms are computed and reported
\* exactly when the problem has a known solution and wants file output; in
\* particular they are never computed without a known solution, and never
\* before the loop has ended.
C12_ErrorsIffKnownAndFileOutput ==
    /\ PastErrors => report.errors = (hyp.SolutionKnown /\ hyp.FileOutput)
    /\ ~PastErrors => ~report.errors
    /\ (report.errors => hyp.SolutionKnown)
    /\ \A r \in Ranks : Running(r) =>
         /\ (rank[r].pc = "exit" /\ rank[r].exitStatus = "0") =>
              rank[r].report.errors
                = (rank[r].hyp.SolutionKnown /\ rank[r].hyp.FileOutput)
         /\ (rank[r].pc # "exit" => ~rank[r].report.errors)
         /\ (rank[r].report.errors => rank[r].hyp.SolutionKnown)

\* a run of a problem with a known solution and without file output has
\* returned 0 and has not computed the errors: hypsys, or a rank of phypsys
C12_Witness ==
    \/ /\ pc = "exit" /\ exitStatus = "0"
       /\ hyp.SolutionKnown /\ ~hyp.FileOutput /\ ~report.errors
    \/ \E r \in Ranks :
         /\ rank[r].pc = "exit" /\ rank[r].exitStatus = "0"
         /\ rank[r].hyp.SolutionKnown /\ ~rank[r].hyp.FileOutput
         /\ ~rank[r].report.errors

(* -------------------------------- C14 ----------------------------------- *)
\* C14: the lumped mass is assigned once, where the spaces are built
\* before the loop (in the MPI driver before the first collective), and no
\* later step of a run changes it: not a time step, a convergence check or
\* a diagnostic.  The initial mass is the product of this vector with the
\* initial state, and the reported mass difference and domain size are
\* computed from the same vector and the final state.
C14_LumpedMassFixed ==
    /\ [](/\ (pc \in {"evol", "loop", "check", "vis"} \/ AfterLoop) =>
               /\ DOMAIN LumpedMassMat = Dofs
               /\ \A i \in Dofs : LumpedMassMat[i] > 0
               /\ InitialMass = Dot(LumpedMassMat, hyp.u0)
          /\ PastErrors =>
               /\ report.mass.num = Abs(InitialMass - Dot(LumpedMassMat, u))
               /\ report.mass.den = VecSum(LumpedMassMat)
          /\ \A r \in Ranks : (Running(r) /\ rank[r].pc \notin {"parse", "exit"}) =>
               /\ DOMAIN rank[r].LumpedMassMat = LocalDofs(r)
               /\ \A i \in LocalDofs(r) : rank[r].LumpedMassMat[i] > 0
               /\ (PastFinalMass(r) \/ rank[r].wait = "FinalMass" =>
                     rank[r].MassMPI = Dot(rank[r].LumpedMassMat, rank[r].u)))
    /\ [][/\ (LumpedMassMat' # LumpedMassMat => pc = "space")
          /\ \A r \in Ranks :
               (Running(r) /\ rank'[r].LumpedMassMat # rank[r].LumpedMassMat)
                  => rank[r].pc = "parse"]_vars

\* a steady-state run on a mass vector with different entries has returned
\* 0 after steps and checks that changed the mass of the state: hypsys, or
\* a rank of phypsys with its part of the vector
C14_Witness ==
    \/ /\ pc = "exit" /\ exitStatus = "0" /\ hyp.SteadyState /\ nCheck = 1
       /\ \E i, j \in Dofs : LumpedMassMat[i] # LumpedMassMat[j]
       /\ report.mass.num > 0
    \/ \E r \in Ranks :
         /\ rank[r].pc = "exit" /\ rank[r].exitStatus = "0"
         /\ rank[r].hyp.SteadyState /\ rank[r].nCheck = 1
         /\ rank[r].report.mass.num > 0

(* -------------------------------- C15 ----------------------------------- *)
\* C15: before the first time step the last snapshot handed to the
\* visualization is the initial state with step index 0; a pass of the loop
\* whose step index is a multiple of a visualization interval >= 1, or that
\* ends the loop, hands over the state and the index of that pass; after the
\* loop the last snapshot is the final state, which after a converged check
\* is uOld.
C15_SnapshotsInitialPeriodicFinal ==
    /\ [](/\ (pc = "evol" \/ (pc = "loop" /\ nEval = 0)) =>
               sout = [u |-> hyp.u0, ti |-> 0] /\ u = hyp.u0
          /\ AfterLoop => sout = [u |-> u, ti |-> ti]
          /\ (AfterLoop /\ hyp.SteadyState /\ BelowTol(res)) => sout.u = uOld
          /\ \A r \in Ranks : Running(r) =>
               /\ (rank[r].pc = "loop" /\ rank[r].nEval = 0) =>
                    rank[r].sout = [u |-> rank[r].hyp.u0, ti |-> 0]
               /\ PAfterLoop(r) =>
                    rank[r].sout = [u |-> rank[r].u, ti |-> rank[r].ti]
               /\ (PAfterLoop(r) /\ rank[r].hyp.SteadyState
                     /\ BelowTol(rank[r].res)) => rank[r].sout.u = rank[r].uOld)
    /\ [][/\ (pc = "vis" /\ pc' \in {"loop", "mass"} /\ config.VisSteps >= 1) =>
               /\ (pc' = "mass" \/ ti % config.VisSteps = 0)
                    => sout' = [u |-> u, ti |-> ti]
               /\ (pc' = "loop" /\ ti % config.VisSteps # 0) => sout' = sout
          /\ \A r \in Ranks :
               (Running(r) /\ rank[r].pc = "vis" /\ rank'[r].pc # "vis"
                  /\ config.VisSteps >= 1) =>
                 /\ (PAfterLoop(r)' \/ rank[r].ti % config.VisSteps = 0)
                      => rank'[r].sout = [u |-> rank'[r].u, ti |-> rank[r].ti]
                 /\ (rank'[r].pc = "loop" /\ rank[r].ti % config.VisSteps # 0)
                      => rank'[r].sout = rank[r].sout]_vars

\* the loop has ended at a step index that is not a multiple of the
\* visualization interval, and the last snapshot is the state of that step:
\* hypsys, or a rank of phypsys
C15_Witness ==
    \/ /\ pc = "mass" /\ config.VisSteps = 2 /\ ti % 2 = 1
       /\ sout = [u |-> u, ti |-> ti] /\ u # hyp.u0
    \/ \E r \in Ranks :
         /\ Running(r) /\ PAfterLoop(r) /\ config.VisSteps = 2
         /\ rank[r].ti % 2 = 1
         /\ rank[r].sout = [u |-> rank[r].u, ti |-> rank[r].ti]
         /\ rank[r].u # rank[r].hyp.u0

(* -------------------------------- C18 ----------------------------------- *)
\* C18: for a steady-state problem uOld has the size of the (rank-local)
\* state and is zero when the loop is entered; when a time step begins uOld
\* is the zero vector if it is the first step and the state of the step
\* before otherwise, and the step leaves it alone; the convergence check
\* that follows takes its residual from the difference of the new state
\* and this uOld, so the first check measures the first updated state
\* against zero and not against the initial state.
C18_UOldZeroBeforeFirstStep ==
    /\ [](/\ (hyp.SteadyState /\ pc = "loop" /\ nEval = 0) =>
               uOld = [i \in Dofs |-> 0]
          /\ \A r \in Ranks :
               (Running(r) /\ rank[r].hyp.SteadyState
                  /\ rank[r].pc = "loop" /\ rank[r].nEval = 0) =>
                 rank[r].uOld = [i \in LocalDofs(r) |-> 0])
    /\ [][/\ (hyp.SteadyState /\ pc = "loop" /\ pc' = "check") =>
               /\ uOld' = uOld
               /\ uOld = IF nEval = 0 THEN [i \in Dofs |-> 0] ELSE u
          /\ (hyp.SteadyState /\ pc = "check" /\ pc' = "vis") =>
               /\ res'.den = dt
               /\ res'.num = SumOver([i \in Dofs |->
                                LumpedMassMat[i] * Abs(u[i] - uOld[i])], Dofs)
               /\ uOld' = u
          /\ \A r \in Ranks : (Running(r) /\ rank[r].hyp.SteadyState) =>
               /\ (rank[r].pc = "loop" /\ rank'[r].pc # "loop") =>
                    /\ rank'[r].uOld = rank[r].uOld
                    /\ rank[r].uOld = IF rank[r].nEval = 0
                                        THEN [i \in LocalDofs(r) |-> 0]
                                        ELSE rank[r].u
               /\ (rank[r].pc = "check" /\ rank'[r].pc # "check") =>
                    /\ rank'[r].sendbuf =
                         SumOver([i \in LocalDofs(r) |->
                                    rank[r].LumpedMassMat[i]
                                      * Abs(rank[r].u[i] - rank[r].uOld[i])],
                                 LocalDofs(r))
                    /\ rank'[r].uOld = rank[r].u]_vars

\* the first check of a steady-state run whose first step left a non-zero
\* initial state as it was has a residual that is not zero, the norm of
\* that state: hypsys, or a rank of phypsys
C18_Witness ==
    \/ /\ pc = "vis" /\ hyp.SteadyState /\ ti = 1 /\ nCheck = 1 /\ t = dt
       /\ u = hyp.u0 /\ uOld = hyp.u0
       /\ res.num = Dot(LumpedMassMat, hyp.u0) /\ res.num > 0
    \/ \E r \in Ranks :
         /\ Running(r) /\ rank[r].wait = "res" /\ rank[r].hyp.SteadyState
         /\ rank[r].ti = 1 /\ rank[r].t = rank[r].dt
         /\ rank[r].u = rank[r].hyp.u0
         /\ rank[r].sendbuf = Dot(rank[r].LumpedMassMat, rank[r].hyp.u0)
         /\ rank[r].sendbuf > 0

(* -------------------------------- C17 ----------------------------------- *)
\* rank r has evaluated the loop condition of the pass with its index ti
Decided(r) == rank[r].pc = "loop" \/ PAfterLoop(r)

\* every rank has returned from main()
AllExited == \A r \in Ranks : rank[r].pc = "exit"

\* C17: the ranks of the MPI driver decide alike.  Two ranks that have
\* evaluated the loop condition of the same pass have both left the loop or
\* both stayed; ranks that have left the loop left it after the same pass
\* and at the same time, and no rank steps beyond that pass; ranks that
\* test the residual of the same pass test the same number.  Ranks that
\* are blocked in collectives at the same moment are blocked in the same
\* collective, called in the same pass; a rank that returned -1 called no
\* collective and no other rank calls one; while a rank has not returned
\* some rank can take a step, and in the end every rank has returned.
C17_RanksDecideAlike ==
    /\ [](\A r, q \in Ranks : (Running(r) /\ Running(q)) =>
            /\ (Decided(r) /\ Decided(q) /\ rank[r].ti = rank[q].ti) =>
                 (PAfterLoop(r) <=> PAfterLoop(q))
            /\ (PAfterLoop(r) /\ PAfterLoop(q)) =>
                 rank[r].ti = rank[q].ti /\ rank[r].t = rank[q].t
            /\ PAfterLoop(r) => rank[q].t <= rank[r].t
            /\ (rank[r].pc = "vis" /\ rank[q].pc = "vis"
                  /\ rank[r].ti = rank[q].ti) =>
                 /\ rank[r].res = rank[q].res
                 /\ rank[r].done = rank[q].done
            /\ (rank[r].pc = "collective" /\ rank[q].pc = "collective") =>
                 /\ rank[r].wait = rank[q].wait
                 /\ rank[r].ti = rank[q].ti
            /\ rank[r].exitStatus = "-1" => rank[q].pc \in {"parse", "exit"}
            /\ (rank[r].pc = "exit" /\ rank[q].pc = "exit") =>
                 rank[r].exitStatus = rank[q].exitStatus)
    /\ []((\E r \in Ranks : Running(r) /\ rank[r].pc # "exit") => ENABLED NextPar)
    /\ ((\A r \in Ranks : Running(r)) ~> AllExited)

\* after the first check of a steady-state run a rank stays in the loop
\* because the sum of the residuals is not below the tolerance, although
\* its own part of the residual is
C17_Witness ==
    \E r \in Ranks :
      /\ Running(r) /\ rank[r].pc = "loop" /\ rank[r].hyp.SteadyState
      /\ rank[r].ti = 1 /\ ~rank[r].done
      /\ BelowTol([num |-> rank[r].sendbuf, den |-> rank[r].dt])
      /\ ~BelowTol(rank[r].res)

(* -------------------------------- C16 ----------------------------------- *)
\* the original statement of C16: with config.dt > 0 and config.tFinal > 0
\* every step is taken with dt = min(config.dt, tFinal - t), 0 < dt <=
\* config.dt, the time after a step is at most tFinal, and a run whose loop
\* ends with the final time reached ends with t = tFinal.
C16_EndsExactlyAtFinalTime ==
    /\ [](/\ (InLoop \/ AfterLoop) => t <= config.tFinal
          /\ (AfterLoop /\ TimeUp(t)) => t = config.tFinal
          /\ \A r \in Ranks : Running(r) =>
               /\ rank[r].t <= config.tFinal
               /\ (PAfterLoop(r) /\ TimeUp(rank[r].t)) =>
                    rank[r].t = config.tFinal)
    /\ [][/\ (pc = "loop" /\ pc' = "check") =>
               /\ dt' = Min(config.dt, config.tFinal - t)
               /\ 0 < dt' /\ dt' <= config.dt
               /\ t' = t + dt'
          /\ \A r \in Ranks :
               (Running(r) /\ rank[r].pc = "loop" /\ rank'[r].pc # "loop") =>
                 /\ rank'[r].dt = Min(config.dt, config.tFinal - rank[r].t)
                 /\ 0 < rank'[r].dt /\ rank'[r].dt <= config.dt]_vars

\* C16, amended: with config.dt > 0 and config.tFinal > 0 every step is
\* taken with dt = min(config.dt, tFinal - t), 0 < dt <= config.dt, and the
\* time after a step is at most tFinal; a run whose loop ends with the
\* final time reached ends with tFinal - 1e-8*config.dt <= t <= tFinal: a
\* remainder of at most 1e-8*config.dt is not stepped over.
C16_EndsWithinToleranceOfFinalTime ==
    /\ [](/\ (InLoop \/ AfterLoop) => t <= config.tFinal
          /\ (AfterLoop /\ TimeUp(t)) =>
               config.tFinal - t <= config.dt \div EpsInv
          /\ (pc = "loop" /\ ~done /\ nEval > 0) =>
               config.tFinal - t > config.dt \div EpsInv
          /\ \A r \in Ranks : Running(r) =>
               /\ rank[r].t <= config.tFinal
               /\ (PAfterLoop(r) /\ TimeUp(rank[r].t)) =>
                    config.tFinal - rank[r].t <= config.dt \div EpsInv)
    /\ [][/\ (pc = "loop" /\ pc' = "check") =>
               /\ dt' = Min(config.dt, config.tFinal - t)
               /\ 0 < dt' /\ dt' <= config.dt
               /\ t' = t + dt'
          /\ \A r \in Ranks :
               (Running(r) /\ rank[r].pc = "loop" /\ rank'[r].pc # "loop") =>
                 /\ rank'[r].dt = Min(config.dt, config.tFinal - rank[r].t)
                 /\ 0 < rank'[r].dt /\ rank'[r].dt <= config.dt]_vars

\* a run of a problem that seeks no steady state has left the loop after a
\* full step with the final time reached and t < tFinal, or after a
\* shortened last step with t = tFinal: hypsys, or a rank of phypsys
C16_Witness ==
    \/ /\ AfterLoop /\ ~hyp.SteadyState /\ TimeUp(t)
       /\ \/ t < config.tFinal /\ dt = config.dt
          \/ t = config.tFinal /\ dt < config.dt /\ ti >= 2
    \/ \E r \in Ranks :
         /\ Running(r) /\ PAfterLoop(r) /\ ~rank[r].hyp.SteadyState
         /\ TimeUp(rank[r].t)
         /\ \/ rank[r].t < config.tFinal /\ rank[r].dt = config.dt
            \/ rank[r].t = config.tFinal /\ rank[r].dt < config.dt
                 /\ rank[r].ti >= 2

(* -------------------------------- C13 ----------------------------------- *)
\* the serial driver has evaluated the loop condition of the pass with
\* its index ti
SerialDecided == pc = "loop" \/ AfterLoop

====
